---------------------------- MODULE Spec2Model ----------------------------
(***************************************************************************)
(* Model of src/server.js: the two Express handlers POST /sendOtp and      *)
(* POST /verifyOtp over the Firestore collection 'users', the mail         *)
(* transport and the Firebase Auth admin API.                              *)
(*                                                                         *)
(* Every `await` of a handler is one step of the model: the collaborator   *)
(* call takes effect and the synchronous code up to the next await (or the *)
(* response) runs atomically with it.  Several requests may be in flight.  *)
(* res.json() runs in the turn that ends the handler, so a response is on  *)
(* its way out before any other handler or the clock moves.                *)
(***************************************************************************)
EXTENDS Integers, Sequences, FiniteSets, TLC

VARIABLES
    store,        \* the 'users' collection: document id -> document
    now,          \* the wall clock, in ms (Date.now(), serverTimestamp())
    ticks,        \* how many times the clock advanced (bounded)
    req,          \* request slot -> the handler invocation running in it
    authVerified, \* Firebase Auth: uids whose emailVerified flag is set
    verifiedSinceIssue, \* history: per document, verifyOtp updates committed
                        \* since the last sendOtp write (capped at 2)
    okSinceIssue  \* history: per document, verifyOtp requests answered with
                  \* success that read the record after its last sendOtp
                  \* write (capped at 2)

vars == <<store, now, ticks, req, authVerified, verifiedSinceIssue,
          okSinceIssue>>

---------------------------------------------------------------------------
(* Bounds and values *)

\* the clock advances at most this many times
MaxTicks == 2

\* line 79: 5 * 60 * 1000 ms
OTP_TTL_MS == 5 * 60 * 1000

\* one clock step: a whole validity window, so that a code is seen before,
\* at and after its expiry
TickSteps == {OTP_TTL_MS}

\* request slots: handler invocations that may be in flight together
Reqs == {1, 2}

\* JS undefined / an absent document field
Undefined == "undefined"
\* an absent timestamp field
NoTime == -1
\* no document reference (a falsy userDocRef)
NoRef == "noref"

\* document ids of the collection
DocIds == {"u1", "d2"}

\* req.body.otp is a JSON value: absent, a string or a number
AbsentVal == [t |-> "absent", n |-> 0, s |-> ""]
StrVal(x) == [t |-> "str", n |-> 0, s |-> x]
NumVal(k) == [t |-> "num", n |-> k, s |-> ""]

\* the request bodies explored: every field present, with the code as a
\* number or as a string, and each field missing in turn
Codes == {NumVal(1), StrVal("2")}
Bodies ==
    { [email |-> "a", otp |-> o, uid |-> "u1"] : o \in Codes }
    \cup { [email |-> "a", otp |-> StrVal("2"), uid |-> Undefined],
           [email |-> Undefined, otp |-> NumVal(1), uid |-> "u1"],
           [email |-> "a", otp |-> AbsentVal, uid |-> "u1"] }

Digit == <<"0", "1", "2", "3", "4", "5", "6", "7", "8", "9">>

\* Number.prototype.toString of a non-negative integer: its decimal digits
RECURSIVE DecStr(_)
DecStr(k) == IF k < 10 THEN Digit[k + 1]
             ELSE DecStr(k \div 10) \o Digit[(k % 10) + 1]

\* otp.toString() (lines 81, 131)
ToStr(v) == IF v.t = "num" THEN DecStr(v.n) ELSE v.s

\* JS truthiness of a body value: !otp is true for undefined, 0 and ""
TruthyVal(v) == /\ v.t # "absent"
                /\ ~(v.t = "num" /\ v.n = 0)
                /\ ~(v.t = "str" /\ v.s = "")

\* JS truthiness of a string-or-undefined body field (email, uid)
Truthy(x) == x # Undefined /\ x # ""

\* a document id that holds no document
AbsentDoc == [exists |-> FALSE, email |-> Undefined, uid |-> Undefined,
              otp |-> Undefined, otpExpiresAt |-> NoTime,
              emailVerified |-> FALSE, verifiedAt |-> NoTime]

\* a user document as the signup flow leaves it
UserDoc(e, u, o) == [exists |-> TRUE, email |-> e, uid |-> u,
                     otp |-> o, otpExpiresAt |-> NoTime,
                     emailVerified |-> FALSE, verifiedAt |-> NoTime]

\* the stores the handlers may start from: document u1 absent or present,
\* document d2 absent or carrying the email and the uid field; or only d2,
\* carrying the email alone
InitPaired ==
    { [d \in DocIds |-> IF d = "u1" THEN a ELSE b] :
        a \in {AbsentDoc, UserDoc("a", Undefined, Undefined)},
        b \in {AbsentDoc, UserDoc("a", "u1", Undefined)} }
    \cup { [d \in DocIds |-> IF d = "u1" THEN AbsentDoc
                             ELSE UserDoc("a", Undefined, Undefined)] }

\* a store written by other code: a code without an expiry
InitLegacy ==
    { [d \in DocIds |-> IF d = "u1" THEN UserDoc("a", Undefined, "1")
                        ELSE AbsentDoc] }

\* a store in which the record of another account id carries the email and
\* holds a pending code, as a sendOtp with uid "d2" at time 0 leaves it
InitPending ==
    { [d \in DocIds |->
          IF d = "u1" THEN AbsentDoc
          ELSE [UserDoc("a", Undefined, "2") EXCEPT
                    !.otpExpiresAt = OTP_TTL_MS]] }

InitStores == InitPaired \cup InitLegacy

---------------------------------------------------------------------------
(* Responses *)

NoResp == [status |-> 0, success |-> FALSE, msg |-> "", email |-> Undefined,
           uid |-> Undefined]

\* errorResponse(res, status, message), lines 37-39
errorResponse(status, message) ==
    [status |-> status, success |-> FALSE, msg |-> message,
     email |-> Undefined, uid |-> Undefined]

\* line 86
SendOk == [status |-> 200, success |-> TRUE, msg |-> "OTP sent successfully",
           email |-> Undefined, uid |-> Undefined]

\* line 151
VerifyOk(e, u) == [status |-> 200, success |-> TRUE,
                   msg |-> "Email verified successfully",
                   email |-> e, uid |-> u]

\* lines 87-90 and 152-155: the catch-all of each handler
SendFailed == errorResponse(500, "Failed to send OTP. ")
VerifyFailed == errorResponse(500, "Failed to verify OTP. ")

\* the locals of a handler invocation, the calls it made (mails, reads,
\* writes, authCalls count attempts) and, as history, the code and expiry
\* a sendOtp write replaced, and whether a sendOtp wrote the record of a
\* verifyOtp after the verifyOtp read it (raced)
IdleReq == [kind |-> "none", pc |-> "idle", email |-> Undefined,
            otp |-> AbsentVal, uid |-> Undefined, ref |-> NoRef,
            storedOtp |-> Undefined, expiryAt |-> NoTime,
            replaced |-> Undefined, replacedExp |-> NoTime,
            raced |-> FALSE,
            mails |-> 0, mailOk |-> FALSE, reads |-> 0, writes |-> 0,
            authCalls |-> 0, authOk |-> FALSE, resp |-> NoResp]

\* a handler returns: the response is sent
Respond(q, r) == [q EXCEPT !.pc = "done", !.resp = r]

---------------------------------------------------------------------------
Init ==
    /\ store \in InitStores
    /\ now = 0
    /\ ticks = 0
    /\ req = [r \in Reqs |-> IdleReq]
    /\ authVerified = {}
    /\ verifiedSinceIssue = [d \in DocIds |-> 0]
    /\ okSinceIssue = [d \in DocIds |-> 0]

\* no response is being written
Ready == \A r \in Reqs : req[r].pc # "done"

\* no request is in flight
Quiet == \A r \in Reqs : req[r].pc = "idle"

\* time passes
Tick ==
    /\ Ready
    /\ ticks < MaxTicks
    /\ \E d \in TickSteps : now' = now + d
    /\ ticks' = ticks + 1
    /\ UNCHANGED <<store, req, authVerified, verifiedSinceIssue,
                 okSinceIssue>>


---------------------------------------------------------------------------
(* The document store *)

\* db.collection('users').doc(id): a reference, or an exception when id is
\* not a non-empty string (the path is validated before any I/O)
Throws == "throws"
DocRef(id) == IF Truthy(id) THEN id ELSE Throws

\* where('uid', '==', u).limit(1): the documents that may be returned
QueryUid(u) == {d \in DocIds : store[d].exists /\ store[d].uid = u}

\* where('email', '==', e).limit(1): the documents that may be returned
QueryEmail(e) == {d \in DocIds : store[d].exists /\ store[d].email = e}

\* a merge that writes the code and keeps an expiry already there
MergeOtp_KeepsExpiry(doc, code, exp) ==
    [doc EXCEPT !.exists = TRUE, !.otp = code,
                !.otpExpiresAt = IF @ = NoTime THEN exp ELSE @]

\* a merge that writes the code and no expiry
MergeOtp_CodeOnly(doc, code, exp) ==
    [doc EXCEPT !.exists = TRUE, !.otp = code]

\* a write of the code that starts the record's verification over
MergeOtp_ResetsVerified(doc, code, exp) ==
    [doc EXCEPT !.exists = TRUE, !.otp = code, !.otpExpiresAt = exp,
                !.emailVerified = FALSE]

\* a write that replaces the whole document by the code and its expiry
MergeOtp_Overwrite(doc, code, exp) ==
    [AbsentDoc EXCEPT !.exists = TRUE, !.otp = code, !.otpExpiresAt = exp]

\* ref.set({otp, otpExpiresAt}, {merge: true}), line 81: creates the
\* document when it does not exist, keeps every other field
MergeOtp(doc, code, exp) ==
    [doc EXCEPT !.exists = TRUE, !.otp = code, !.otpExpiresAt = exp]

\* an update that marks the record verified and leaves the code in place
MarkVerified_KeepsCode(doc, t) ==
    [doc EXCEPT !.emailVerified = TRUE, !.verifiedAt = t]

\* ref.update({emailVerified, otp: delete, otpExpiresAt: delete,
\* verifiedAt: serverTimestamp}), lines 136-141
MarkVerified(doc, t) ==
    [doc EXCEPT !.emailVerified = TRUE, !.otp = Undefined,
                !.otpExpiresAt = NoTime, !.verifiedAt = t]

---------------------------------------------------------------------------
(* sendOtp, lines 45-91 *)

\* a validation that forgets the otp
SendMissing_EmailOnly(e, o) == ~Truthy(e)

\* line 47
SendMissing(e, o) == ~Truthy(e) \/ ~TruthyVal(o)

\* lines 79-86 up to the next await: with a reference the expiry is taken
\* from the clock and the write is issued, without one the handler warns
\* and answers
SendResolved(q, t) ==
    IF q.ref # NoRef
    THEN [q EXCEPT !.pc = "set", !.expiryAt = t + OTP_TTL_MS]
    ELSE Respond(q, SendOk)

\* lines 72-77: the email query is made only with a falsy userDocRef
SendAfterUid(q, t) ==
    IF q.ref = NoRef THEN [q EXCEPT !.pc = "qEmail"] ELSE SendResolved(q, t)

\* lines 61-62 up to the next await, after the mail went out
SendAfterMail(q, t) ==
    IF DocRef(q.uid) = Throws THEN Respond(q, SendFailed)
    ELSE LET q1 == [q EXCEPT !.ref = DocRef(q.uid)]
         IN  IF Truthy(q.uid) THEN [q1 EXCEPT !.pc = "get"]
             ELSE SendAfterUid(q1, t)

---------------------------------------------------------------------------
(* verifyOtp, lines 94-156 *)

\* line 96
VerifyMissing(e, o, u) == ~Truthy(e) \/ ~TruthyVal(o) \/ ~Truthy(u)

\* an expiry check that never fires
IsExpired_Never(t, exp) == FALSE

\* line 129: new Date() > expiryDate
IsExpired(t, exp) == t > exp

\* the checks without the comparison of the codes
VerifyChecks_NoCompare(data, o, t) ==
    IF ~Truthy(data.otp) THEN "OTP not found. Request a new OTP"
    ELSE IF data.otpExpiresAt = NoTime
         THEN "OTP expiry missing. Request new OTP"
    ELSE IF t > data.otpExpiresAt
         THEN "OTP expired. Request new OTP"
    ELSE "Matched"

\* lines 121-133: the checks on the document data, in order
VerifyChecks(data, o, t) ==
    IF ~Truthy(data.otp) THEN "OTP not found. Request a new OTP"
    ELSE IF data.otpExpiresAt = NoTime
         THEN "OTP expiry missing. Request new OTP"
    ELSE IF IsExpired(t, data.otpExpiresAt)
         THEN "OTP expired. Request new OTP"
    ELSE IF data.otp # ToStr(o) THEN "Invalid OTP"
    ELSE "Matched"

\* lines 117-133 up to the next await, with the snapshot of document d
VerifyLoaded(q, d, data, t) ==
    LET q1 == [q EXCEPT !.ref = d, !.storedOtp = data.otp]
        o == VerifyChecks(data, q.otp, t)
    IN  IF o = "Matched" THEN [q1 EXCEPT !.pc = "update"]
        ELSE Respond(q1, errorResponse(400, o))

---------------------------------------------------------------------------
(* Steps *)

Failed(kind) == IF kind = "send" THEN SendFailed ELSE VerifyFailed

\* POST /sendOtp arrives: lines 46-51
StartSend(r, e, o, u) ==
    /\ Ready
    /\ req[r].pc = "idle"
    /\ LET q == [IdleReq EXCEPT !.kind = "send", !.email = e, !.otp = o,
                                !.uid = u]
       IN  req' = [req EXCEPT ![r] =
                IF SendMissing(e, o)
                THEN Respond(q, errorResponse(400, "Missing email or otp"))
                ELSE [q EXCEPT !.pc = "mail"]]
    /\ UNCHANGED <<store, now, ticks, authVerified, verifiedSinceIssue,
                 okSinceIssue>>

\* transporter.sendMail resolves: lines 51-62
MailDelivered(r) ==
    /\ Ready
    /\ req[r].pc = "mail"
    /\ req' = [req EXCEPT ![r] =
            SendAfterMail([@ EXCEPT !.mails = @ + 1, !.mailOk = TRUE], now)]
    /\ UNCHANGED <<store, now, ticks, authVerified, verifiedSinceIssue,
                 okSinceIssue>>

\* a rejected sendMail that is swallowed: the handler goes on to the store
MailFailed_Swallowed(r) ==
    /\ Ready
    /\ req[r].pc = "mail"
    /\ req' = [req EXCEPT ![r] =
            SendAfterMail([@ EXCEPT !.mails = @ + 1], now)]
    /\ UNCHANGED <<store, now, ticks, authVerified, verifiedSinceIssue,
                 okSinceIssue>>

\* a mail transport failure after which the handler sends the mail again
MailFailed_Retries(r) ==
    /\ Ready
    /\ req[r].pc = "mail"
    /\ req' = [req EXCEPT ![r] = [@ EXCEPT !.mails = @ + 1]]
    /\ UNCHANGED <<store, now, ticks, authVerified, verifiedSinceIssue,
                 okSinceIssue>>

\* transporter.sendMail rejects: lines 87-90
MailFailed(r) ==
    /\ Ready
    /\ req[r].pc = "mail"
    /\ req' = [req EXCEPT ![r] =
            Respond([@ EXCEPT !.mails = @ + 1], SendFailed)]
    /\ UNCHANGED <<store, now, ticks, authVerified, verifiedSinceIssue,
                 okSinceIssue>>

\* POST /verifyOtp arrives: lines 95-101
StartVerify(r, e, o, u) ==
    /\ Ready
    /\ req[r].pc = "idle"
    /\ LET q == [IdleReq EXCEPT !.kind = "verify", !.email = e, !.otp = o,
                                !.uid = u]
       IN  req' = [req EXCEPT ![r] =
                IF VerifyMissing(e, o, u)
                THEN Respond(q, errorResponse(400,
                                              "Missing email, uid, or otp"))
                ELSE [q EXCEPT !.pc = "get", !.ref = DocRef(u)]]
    /\ UNCHANGED <<store, now, ticks, authVerified, verifiedSinceIssue,
                 okSinceIssue>>

\* a read by id whose result is ignored: the handler always queries
GetById_SkipsId(r) ==
    /\ Ready
    /\ req[r].pc = "get"
    /\ req' = [req EXCEPT ![r] = [@ EXCEPT !.reads = @ + 1, !.pc = "qUid"]]
    /\ UNCHANGED <<store, now, ticks, authVerified, verifiedSinceIssue,
                 okSinceIssue>>

\* userDocRef.get() resolves: lines 62-64 and 79 (send), 101-133 (verify)
GetById(r) ==
    /\ Ready
    /\ req[r].pc = "get"
    /\ LET q == [req[r] EXCEPT !.reads = @ + 1]
           snap == store[q.ref]
       IN  req' = [req EXCEPT ![r] =
                IF q.kind = "send"
                THEN IF snap.exists THEN SendResolved(q, now)
                     ELSE IF Truthy(q.uid) THEN [q EXCEPT !.pc = "qUid"]
                     ELSE SendAfterUid(q, now)
                ELSE IF snap.exists THEN VerifyLoaded(q, q.ref, snap, now)
                     ELSE [q EXCEPT !.pc = "qUid"]]
    /\ UNCHANGED <<store, now, ticks, authVerified, verifiedSinceIssue,
                 okSinceIssue>>

\* where('uid', '==', uid).limit(1).get() resolves: lines 67-79 (send),
\* 104-108 and 117-133 (verify)
QueryByUid(r) ==
    /\ Ready
    /\ req[r].pc = "qUid"
    /\ LET q == [req[r] EXCEPT !.reads = @ + 1]
           hits == QueryUid(q.uid)
       IN  IF hits = {}
           THEN req' = [req EXCEPT ![r] =
                    IF q.kind = "send" THEN SendAfterUid(q, now)
                    ELSE [q EXCEPT !.pc = "qEmail"]]
           ELSE \E d \in hits :
                req' = [req EXCEPT ![r] =
                    IF q.kind = "send"
                    THEN SendAfterUid([q EXCEPT !.ref = d], now)
                    ELSE VerifyLoaded(q, d, store[d], now)]
    /\ UNCHANGED <<store, now, ticks, authVerified, verifiedSinceIssue,
                 okSinceIssue>>

\* where('email', '==', email).limit(1).get() resolves: lines 74-79
\* (send), 109-133 (verify)
QueryByEmail(r) ==
    /\ Ready
    /\ req[r].pc = "qEmail"
    /\ LET q == [req[r] EXCEPT !.reads = @ + 1]
           hits == QueryEmail(q.email)
       IN  IF hits = {}
           THEN req' = [req EXCEPT ![r] =
                    IF q.kind = "send" THEN SendResolved(q, now)
                    ELSE Respond(q, errorResponse(400,
                                     "User not found in Firestore"))]
           ELSE \E d \in hits :
                req' = [req EXCEPT ![r] =
                    IF q.kind = "send"
                    THEN SendResolved([q EXCEPT !.ref = d], now)
                    ELSE VerifyLoaded(q, d, store[d], now)]
    /\ UNCHANGED <<store, now, ticks, authVerified, verifiedSinceIssue,
                 okSinceIssue>>

\* userDocRef.set(..., {merge: true}) resolves: lines 81-86
SetOtp(r) ==
    /\ Ready
    /\ req[r].pc = "set"
    /\ LET q == [req[r] EXCEPT
                    !.writes = @ + 1,
                    !.replaced = store[req[r].ref].otp,
                    !.replacedExp = store[req[r].ref].otpExpiresAt]
       IN  /\ store' = [store EXCEPT ![q.ref] =
                            MergeOtp(@, ToStr(q.otp), q.expiryAt)]
           /\ req' = [s \in Reqs |->
                        IF s = r THEN Respond(q, SendOk)
                        ELSE IF /\ req[s].kind = "verify"
                                /\ req[s].pc \in {"update", "auth"}
                                /\ req[s].ref = q.ref
                             THEN [req[s] EXCEPT !.raced = TRUE]
                             ELSE req[s]]
           /\ verifiedSinceIssue' = [verifiedSinceIssue EXCEPT ![q.ref] = 0]
           /\ okSinceIssue' = [okSinceIssue EXCEPT ![q.ref] = 0]
    /\ UNCHANGED <<now, ticks, authVerified>>

\* userDocRef.update(...) resolves, or rejects for a missing document:
\* lines 136-145
UpdateVerified(r) ==
    /\ Ready
    /\ req[r].pc = "update"
    /\ LET q == [req[r] EXCEPT !.writes = @ + 1]
       IN  IF store[q.ref].exists
           THEN /\ store' = [store EXCEPT ![q.ref] = MarkVerified(@, now)]
                /\ req' = [req EXCEPT ![r] = [q EXCEPT !.pc = "auth"]]
                /\ verifiedSinceIssue' =
                       [verifiedSinceIssue EXCEPT ![q.ref] =
                            IF @ < 2 THEN @ + 1 ELSE @]
           ELSE /\ req' = [req EXCEPT ![r] = Respond(q, VerifyFailed)]
                /\ UNCHANGED <<store, verifiedSinceIssue>>
    /\ UNCHANGED <<now, ticks, authVerified, okSinceIssue>>

\* history: the request q is answered with success (line 151)
Answered(q) ==
    IF q.raced THEN okSinceIssue
    ELSE [okSinceIssue EXCEPT ![q.ref] = IF @ < 2 THEN @ + 1 ELSE @]

\* admin.auth().updateUser(uid, {emailVerified: true}) resolves:
\* lines 145, 151
AuthUpdated(r) ==
    /\ Ready
    /\ req[r].pc = "auth"
    /\ authVerified' = authVerified \cup {req[r].uid}
    /\ req' = [req EXCEPT ![r] =
            Respond([@ EXCEPT !.authCalls = @ + 1, !.authOk = TRUE],
                    VerifyOk(@.email, @.uid))]
    /\ okSinceIssue' = Answered(req[r])
    /\ UNCHANGED <<store, now, ticks, verifiedSinceIssue>>

\* a rejected updateUser that reaches the handler's catch-all
AuthFailed_Fatal(r) ==
    /\ Ready
    /\ req[r].pc = "auth"
    /\ req' = [req EXCEPT ![r] =
            Respond([@ EXCEPT !.authCalls = @ + 1], VerifyFailed)]
    /\ UNCHANGED <<store, now, ticks, authVerified, verifiedSinceIssue,
                 okSinceIssue>>

\* admin.auth().updateUser rejects: lines 146-151
AuthFailed(r) ==
    /\ Ready
    /\ req[r].pc = "auth"
    /\ req' = [req EXCEPT ![r] =
            Respond([@ EXCEPT !.authCalls = @ + 1],
                    VerifyOk(@.email, @.uid))]
    /\ okSinceIssue' = Answered(req[r])
    /\ UNCHANGED <<store, now, ticks, authVerified, verifiedSinceIssue>>

\* a rejected Firestore call after which the handler sends nothing
StoreFailed_Unanswered(r) ==
    /\ Ready
    /\ req[r].pc \in {"get", "qUid", "qEmail", "set", "update"}
    /\ req' = [req EXCEPT ![r] = [@ EXCEPT !.pc = "lost"]]
    /\ UNCHANGED <<store, now, ticks, authVerified, verifiedSinceIssue,
                 okSinceIssue>>

\* a Firestore call (get, query, set, update) rejects: lines 87-90, 152-155
StoreFailed(r) ==
    /\ Ready
    /\ req[r].pc \in {"get", "qUid", "qEmail", "set", "update"}
    /\ req' = [req EXCEPT ![r] =
            Respond(IF @.pc \in {"set", "update"}
                    THEN [@ EXCEPT !.writes = @ + 1]
                    ELSE [@ EXCEPT !.reads = @ + 1],
                    Failed(@.kind))]
    /\ UNCHANGED <<store, now, ticks, authVerified, verifiedSinceIssue,
                 okSinceIssue>>

\* one step of the handler running in slot r
Handle(r) ==
    \/ MailDelivered(r)
    \/ MailFailed(r)
    \/ GetById(r)
    \/ QueryByUid(r)
    \/ QueryByEmail(r)
    \/ SetOtp(r)
    \/ UpdateVerified(r)
    \/ AuthUpdated(r)
    \/ AuthFailed(r)
    \/ StoreFailed(r)

\* the response of slot r has gone out: the invocation is over
Close(r) ==
    /\ req[r].pc = "done"
    /\ req' = [req EXCEPT ![r] = IdleReq]
    /\ UNCHANGED <<store, now, ticks, authVerified, verifiedSinceIssue,
                 okSinceIssue>>

\* a request arrives and takes the first free slot
Arrive(r) ==
    /\ \A r0 \in Reqs : r0 < r => req[r0].pc # "idle"
    /\ \E b \in Bodies :
        \/ StartSend(r, b.email, b.otp, b.uid)
        \/ StartVerify(r, b.email, b.otp, b.uid)

Next ==
    \/ \E r \in Reqs : Close(r)
    \/ Tick
    \/ \E r \in Reqs : Arrive(r)
    \/ \E r \in Reqs : Handle(r)

\* requests are served concurrently
Spec == Init /\ [][Next]_vars

NextSeq ==
    \/ \E r \in Reqs : Close(r)
    \/ Tick
    \/ \E r \in Reqs : Quiet /\ Arrive(r)
    \/ \E r \in Reqs : Handle(r)

\* requests are served one after the other
SpecSeq == Init /\ [][NextSeq]_vars

---------------------------------------------------------------------------
(* Properties *)

\* the request read document d as its user record in this step: by id, by
\* the uid field or by the email field
Resolves(r, d) ==
    /\ req'[r].reads = req[r].reads + 1
    /\ req'[r].resp.status # 500
    /\ req'[r].ref = d
    /\ store[d].exists
    /\ \/ req[r].pc = "get" /\ d = req[r].uid
       \/ req[r].pc = "qUid" /\ store[d].uid = req[r].uid
       \/ req[r].pc = "qEmail" /\ store[d].email = req[r].email

\* document doc holds the pending code c
Holds(doc, c) ==
    doc.exists /\ doc.otp = c /\ doc.otp # Undefined
    /\ doc.otpExpiresAt # NoTime

\* the code a request submits, as a string
Submitted(q) == IF q.otp.t = "num" THEN DecStr(q.otp.n) ELSE q.otp.s

NoPendingOtp == [status |-> 400, success |-> FALSE,
                 msg |-> "OTP not found. Request a new OTP",
                 email |-> Undefined, uid |-> Undefined]
Invalid == [status |-> 400, success |-> FALSE, msg |-> "Invalid OTP",
            email |-> Undefined, uid |-> Undefined]
Expired == [status |-> 400, success |-> FALSE,
            msg |-> "OTP expired. Request new OTP",
            email |-> Undefined, uid |-> Undefined]

\* what C1 asks of one step of the request in slot r
C1_Step(r) ==
    LET q == req[r]
        q2 == req'[r]
    IN  /\ \A d \in DocIds :
             q.kind = "verify" /\ Resolves(r, d) =>
               /\ Holds(store[d], Submitted(q)) /\ now < store[d].otpExpiresAt
                    => q2.pc = "update"
               /\ verifiedSinceIssue[d] >= 1
                    => q2.pc = "done" /\ q2.resp = NoPendingOtp
        /\ q.pc = "update" /\ q2.pc = "auth" =>
               /\ store'[q.ref].emailVerified
               /\ store'[q.ref].otp = Undefined
               /\ store'[q.ref].otpExpiresAt = NoTime
        /\ q.pc = "auth" /\ q2.pc = "done" =>
               q2.resp.success /\ q2.resp.status = 200
        /\ \A d \in DocIds : verifiedSinceIssue'[d] <= 1

\* C1 (requests served one after the other).  A verifyOtp that reads a
\* record holding the submitted code with its expiry in the future goes on
\* to the update, which marks the record verified and removes the code, and
\* is then answered with success; no store call failing, that is the only
\* way it ends.  Once a record was verified and until a sendOtp writes it
\* again, a verifyOtp that reads it is answered 'OTP not found' (400).  So
\* at most one verifyOtp succeeds per issued code.
C1_SingleUse == [][\A r \in Reqs : C1_Step(r)]_vars

\* C1 witness: after a successful verification of a record, a second
\* verifyOtp on it was answered 'OTP not found'
C1_Witness ==
    \E r \in Reqs :
        /\ req[r].kind = "verify" /\ req[r].pc = "done"
        /\ req[r].resp = NoPendingOtp
        /\ req[r].ref \in DocIds
        /\ verifiedSinceIssue[req[r].ref] = 1
        /\ store[req[r].ref].emailVerified

\* what C2 asks of one step of the request in slot r
C2_Step(r) ==
    LET q == req[r]
        q2 == req'[r]
    IN  /\ q.kind = "send" /\ q.pc = "set" /\ q2.resp.status = 200 =>
               /\ store'[q.ref].otp = Submitted(q)
               /\ store'[q.ref].otpExpiresAt = q.expiryAt
        /\ \A d \in DocIds :
             ( /\ q.kind = "verify" /\ Resolves(r, d)
               /\ store[d].otp # Undefined /\ store[d].otpExpiresAt # NoTime
               /\ now <= store[d].otpExpiresAt )
             => IF store[d].otp = Submitted(q)
                THEN q2.pc = "update"
                ELSE q2.pc = "done" /\ q2.resp = Invalid

\* C2 (requests served one after the other).  A sendOtp write onto a record
\* that holds another, unexpired code leaves the record holding the new code
\* with the new request's expiry; a verifyOtp that then reads a record with
\* an unexpired code succeeds when it submits the stored code and is
\* answered 'Invalid OTP' when it submits any other.
C2_ReissueOverwrites == [][\A r \in Reqs : C2_Step(r)]_vars

\* C2 witness: a sendOtp has replaced a different code that had not expired
C2_Witness ==
    \E r \in Reqs :
        /\ req[r].kind = "send" /\ req[r].pc = "done"
        /\ req[r].resp.success
        /\ req[r].replaced # Undefined
        /\ req[r].replaced # store[req[r].ref].otp
        /\ req[r].replacedExp # NoTime /\ now < req[r].replacedExp
        /\ store[req[r].ref].otp = Submitted(req[r])

\* C3.  A sendOtp with email and otp and no uid, whose mail was delivered
\* while a record carries that email, is answered with success and leaves
\* that record holding the submitted code and an expiry.
C3_IssueByEmail ==
    \A r \in Reqs :
        LET q == req[r]
        IN  ( /\ q.kind = "send" /\ q.pc = "done"
              /\ q.email # Undefined /\ q.otp # AbsentVal
              /\ q.uid = Undefined /\ q.mailOk
              /\ \E d \in DocIds : store[d].exists /\ store[d].email = q.email )
            => /\ q.resp.success
               /\ \E d \in DocIds :
                    /\ store[d].exists /\ store[d].email = q.email
                    /\ store[d].otp = Submitted(q)
                    /\ store[d].otpExpiresAt # NoTime

\* no record matches the request: not by id, not by uid field, not by email
Unmatched(q) ==
    /\ ~store[q.uid].exists
    /\ \A d \in DocIds :
         store[d].exists => store[d].uid # q.uid /\ store[d].email # q.email

\* what C4 asks of one step of the request in slot r
C4_Step(r) ==
    LET q == req[r]
        q2 == req'[r]
    IN  ( /\ q.kind = "send" /\ q.mailOk /\ q.uid \in DocIds
          /\ q.pc # "done" /\ q2.pc = "done" /\ q2.resp.status # 500
          /\ Unmatched(q) )
        => q2.resp.success /\ store' = store

\* C4 (requests served one after the other).  A sendOtp whose mail was
\* delivered and whose uid and email match no record ends, no store call
\* failing, with success and without changing the store.
C4_UnresolvedPersistsNothing == [][\A r \in Reqs : C4_Step(r)]_vars

\* what C5 asks of one step of the request in slot r
C5_Step(r) ==
    LET q == req[r]
        q2 == req'[r]
    IN  \A d \in DocIds :
          ( /\ q.kind = "verify" /\ Resolves(r, d)
            /\ store[d].otpExpiresAt # NoTime
            /\ now > store[d].otpExpiresAt )
          => /\ q2.pc = "done" /\ q2.resp = Expired
             /\ store' = store /\ authVerified' = authVerified
             /\ q2.writes = 0 /\ q2.authCalls = 0

\* C5.  A verifyOtp that reads its record at a time after the record's
\* otpExpiresAt is answered 'OTP expired' (400), whatever code it submits,
\* and changes nothing: no write, no identity-provider call.
C5_Expiry == [][\A r \in Reqs : C5_Step(r)]_vars

\* C5 witness: a verifyOtp submitting the stored code was answered
\* 'OTP expired'
C5_Witness ==
    \E r \in Reqs :
        /\ req[r].kind = "verify" /\ req[r].pc = "done"
        /\ req[r].resp = Expired
        /\ store[req[r].ref].otp = Submitted(req[r])
        /\ now > store[req[r].ref].otpExpiresAt

ValidationMsgs ==
    {"User not found in Firestore", "OTP not found. Request a new OTP",
     "OTP expiry missing. Request new OTP", "OTP expired. Request new OTP",
     "Invalid OTP"}

\* what C6 asks of one step of the request in slot r
C6_Step(r) ==
    LET q == req[r]
        q2 == req'[r]
    IN  /\ ( /\ q.kind = "verify" /\ q.pc # "done" /\ q2.pc = "done"
             /\ q2.resp.status = 400 /\ q2.resp.msg \in ValidationMsgs )
           => /\ store' = store /\ authVerified' = authVerified
              /\ q2.writes = 0 /\ q2.authCalls = 0
        /\ \A d \in DocIds :
             ( /\ q.kind = "verify" /\ Resolves(r, d)
               /\ store[d].otp # Undefined /\ store[d].otpExpiresAt # NoTime
               /\ now <= store[d].otpExpiresAt
               /\ store[d].otp # Submitted(q) )
             => q2.pc = "done" /\ q2.resp = Invalid /\ store'[d] = store[d]
        /\ ( q.kind = "verify" /\ q.pc # "done" /\ q2.pc = "done"
             /\ q2.writes = 0 /\ q2.resp.status = 400 /\ q.pc # "idle" )
           => q2.resp.msg \in ValidationMsgs

\* C6.  The step in which a verifyOtp is answered with one of the five
\* validation failures changes neither the store nor the identity provider,
\* and the request has made no write and no identity-provider call.  A
\* submitted code that differs from the stored, unexpired code is answered
\* 'Invalid OTP' and the record stays as it was.
C6_FailedVerifyWritesNothing == [][\A r \in Reqs : C6_Step(r)]_vars

\* C6 witness: a verifyOtp submitting another code than the stored one was
\* answered 'Invalid OTP'
C6_Witness ==
    \E r \in Reqs :
        /\ req[r].kind = "verify" /\ req[r].pc = "done"
        /\ req[r].resp = Invalid
        /\ store[req[r].ref].otp # Undefined
        /\ store[req[r].ref].otp # Submitted(req[r])
        /\ req[r].writes = 0

\* the calls a request has made
NoCalls(q) == q.mails = 0 /\ q.reads = 0 /\ q.writes = 0 /\ q.authCalls = 0

\* C7.  A sendOtp without email or otp, and a verifyOtp without email, otp
\* or uid, is answered 400 at once: it sends no mail and makes no store
\* call and no identity-provider call.
C7_MissingInput ==
    \A r \in Reqs :
        LET q == req[r]
        IN  /\ ( q.kind = "send"
                 /\ (q.email = Undefined \/ q.otp = AbsentVal) )
               => /\ q.pc = "done" /\ NoCalls(q)
                  /\ q.resp.status = 400 /\ ~q.resp.success
                  /\ q.resp.msg = "Missing email or otp"
            /\ ( q.kind = "verify"
                 /\ (q.email = Undefined \/ q.otp = AbsentVal
                     \/ q.uid = Undefined) )
               => /\ q.pc = "done" /\ NoCalls(q)
                  /\ q.resp.status = 400 /\ ~q.resp.success
                  /\ q.resp.msg = "Missing email, uid, or otp"

\* C7 witness: a sendOtp without otp was answered 400
C7_Witness ==
    \E r \in Reqs :
        /\ req[r].kind = "send" /\ req[r].otp = AbsentVal
        /\ req[r].email # Undefined
        /\ req[r].pc = "done" /\ req[r].resp.status = 400
        /\ NoCalls(req[r])

\* what C8 asks of one step of the request in slot r
C8_Step(r) ==
    LET q == req[r]
        q2 == req'[r]
    IN  /\ ( q.kind = "send" /\ q.pc = "mail" /\ q2.pc = "done"
             /\ ~q2.mailOk )
           => /\ q2.resp.status = 500 /\ ~q2.resp.success
              /\ q2.reads = 0 /\ q2.writes = 0 /\ q2.mails = 1
              /\ store' = store
        /\ ( q.kind = "send" /\ q2 # q
             /\ (q2.reads > q.reads \/ q2.writes > q.writes
                 \/ store' # store) )
           => q.mailOk /\ q.mails = 1

\* C8.  When the mail transport fails the sendOtp is answered 500, has made
\* no store call, and the store is unchanged; a sendOtp reads or writes the
\* store only after its own mail was delivered.
C8_DeliveryLoadBearing == [][\A r \in Reqs : C8_Step(r)]_vars

\* C8 witness: a sendOtp whose mail was not delivered was answered 500
C8_Witness ==
    \E r \in Reqs :
        /\ req[r].kind = "send" /\ req[r].pc = "done"
        /\ req[r].mails = 1 /\ ~req[r].mailOk
        /\ req[r].resp.status = 500 /\ req[r].writes = 0

\* what C9 asks of one step of the request in slot r
C9_Step(r) ==
    LET q == req[r]
        q2 == req'[r]
    IN  /\ ( q.kind = "verify" /\ q.pc = "auth" /\ q2.pc = "done" )
           => q2.resp = [status |-> 200, success |-> TRUE,
                         msg |-> "Email verified successfully",
                         email |-> q.email, uid |-> q.uid]
        /\ ( q.kind = "verify" /\ q.pc = "auth" /\ q2.pc = "done"
             /\ ~q2.authOk )
           => /\ store' = store /\ authVerified' = authVerified
              /\ store[q.ref].emailVerified
              /\ verifiedSinceIssue[q.ref] >= 1
                   => /\ store[q.ref].otp = Undefined
                      /\ store[q.ref].otpExpiresAt = NoTime

\* C9.  The step in which the identity provider rejects the update changes
\* nothing: the record is still marked verified, with the code and expiry
\* removed unless a sendOtp wrote it since, and the answer is the success
\* response with the request's email and uid, the same as after a
\* successful identity-provider update.
C9_AuthFailureNonFatal == [][\A r \in Reqs : C9_Step(r)]_vars

\* C9 witness: a verifyOtp whose identity-provider update failed was
\* answered with success
C9_Witness ==
    \E r \in Reqs :
        /\ req[r].kind = "verify" /\ req[r].pc = "done"
        /\ req[r].authCalls = 1 /\ ~req[r].authOk
        /\ req[r].resp.success
        /\ store[req[r].ref].emailVerified
        /\ req[r].uid \notin authVerified

\* what C10 asks of one step of the request in slot r
C10_Step(r) ==
    LET q == req[r]
        q2 == req'[r]
    IN  /\ ( q.pc = "get" /\ q2 # q /\ q2.resp.status # 500
             /\ store[q.uid].exists )
           => q2.ref = q.uid /\ q2.pc \in {"set", "update", "done"}
        /\ q2.pc = "qUid" /\ q2 # q
           => q.pc = "get" /\ ~store[q.uid].exists
        /\ q2.pc = "qEmail" /\ q2 # q
           => /\ q.pc = "qUid"
              /\ \A d \in DocIds : store[d].exists => store[d].uid # q.uid
        /\ q.pc \in {"set", "update", "auth"} /\ q2.pc # "idle"
           => q2.ref = q.ref
        /\ q2 # q /\ store' # store
           => \A d \in DocIds : d # q.ref => store'[d] = store[d]

\* C10.  A request whose uid is the id of an existing document takes that
\* document as its record and makes no query; the uid-field query is made
\* only after the read by id found nothing, the email query only after the
\* uid-field query found nothing; a request writes no document but its
\* record.
C10_ResolutionPreference == [][\A r \in Reqs : C10_Step(r)]_vars

\* C10 witness: a sendOtp wrote the document whose id is its uid while
\* another document carries that uid in its uid field and the same email
C10_Witness ==
    \E r \in Reqs :
        /\ req[r].kind = "send" /\ req[r].pc = "done" /\ req[r].resp.success
        /\ req[r].ref = "u1" /\ req[r].uid = "u1"
        /\ store["d2"].exists /\ store["d2"].uid = "u1"
        /\ store["d2"].email = req[r].email
        /\ store["d2"].otp = Undefined
        /\ store["u1"].otp = Submitted(req[r])

\* the handlers started on a store in which every record has otp and
\* otpExpiresAt both present or both absent
InitP == Init /\ store \in InitPaired

\* requests are served concurrently, from a paired store
SpecPaired == InitP /\ [][Next]_vars

\* C11.  From a store in which every record has otp and otpExpiresAt both
\* present or both absent, every state reached by any interleaving of
\* sendOtp and verifyOtp requests, failed ones included, keeps it so: no
\* record holds one of the two fields without the other.
C11_Pairing ==
    \A d \in DocIds :
        (store[d].otp = Undefined) <=> (store[d].otpExpiresAt = NoTime)

\* C11 witness: a record whose code and expiry were written by a sendOtp
\* and then removed together by a verifyOtp
C11_Witness ==
    \E d \in DocIds :
        /\ store[d].emailVerified /\ verifiedSinceIssue[d] >= 1
        /\ store[d].otp = Undefined /\ store[d].otpExpiresAt = NoTime

\* what C12 asks of one step of the request in slot r
C12_Step(r) ==
    LET q == req[r]
        q2 == req'[r]
    IN  \A d \in DocIds :
          ( /\ q.kind = "verify" /\ Resolves(r, d)
            /\ Holds(store[d], Submitted(q)) )
          => /\ q2.pc = "update" => now < store[d].otpExpiresAt
             /\ now = store[d].otpExpiresAt
                  => q2.pc = "done" /\ ~q2.resp.success

\* C12.  A verifyOtp that reads a record holding the submitted code goes on
\* to the update only when the time of the check is strictly before the
\* record's otpExpiresAt; when the time of the check equals otpExpiresAt the
\* request is answered without success.
C12_ExpiryBoundary == [][\A r \in Reqs : C12_Step(r)]_vars

\* C13.  Of the verifyOtp requests that read one pending code of a record
\* (no sendOtp wrote the record between the write of that code and their
\* answer) and submit it, in any interleaving of their reads and updates,
\* at most one is answered with success.
C13_NoReplay == \A d \in DocIds : okSinceIssue[d] <= 1

\* C14.  In every interleaving of sendOtp and verifyOtp requests, a record
\* that has emailVerified = true has it in every later state: no step of
\* either handler sets the flag to false or removes it (or the record).
C14_VerifiedMonotonic ==
    [][\A d \in DocIds :
          store[d].emailVerified
              => store'[d].exists /\ store'[d].emailVerified]_vars

\* C14 witness: a sendOtp has written a new code onto a record that was
\* verified before, and the record is still verified
C14_Witness ==
    \E r \in Reqs :
        /\ req[r].kind = "send" /\ req[r].pc = "done" /\ req[r].resp.success
        /\ req[r].writes = 1
        /\ store[req[r].ref].emailVerified
        /\ store[req[r].ref].otp = Submitted(req[r])

\* what C15 asks of one step of the request in slot r
C15_Step(r) ==
    LET q == req[r]
        q2 == req'[r]
    IN  /\ ( q.kind = "send" /\ q.pc # "set" /\ q2.pc = "set" )
           => q2.expiryAt = now + 5 * 60 * 1000
        /\ ( /\ q.kind = "send" /\ q.pc = "set" /\ q2.resp.success
             /\ store[q.ref].exists )
           => /\ store'[q.ref] = [store[q.ref] EXCEPT
                                     !.otp = Submitted(q),
                                     !.otpExpiresAt = q.expiryAt]
              /\ \A d \in DocIds : d # q.ref => store'[d] = store[d]
              /\ authVerified' = authVerified
        /\ ( q.kind = "send" /\ q.pc # "set" /\ q2 # q )
           => store' = store /\ authVerified' = authVerified

\* C15.  A sendOtp that succeeds on a record it resolved changes, in the one
\* step of its write, only otp and otpExpiresAt of that record: otp becomes
\* the submitted code and otpExpiresAt the time at which the request issued
\* the write plus 5 minutes; email, the uid field, emailVerified, verifiedAt
\* and every other record stay as they were, and no other step of the
\* request changes the store.
C15_NonDestructiveMerge == [][\A r \in Reqs : C15_Step(r)]_vars

\* C15 witness: a sendOtp has written the record it found by the uid field;
\* the record still carries its email and uid and holds the new pair
C15_Witness ==
    \E r \in Reqs :
        /\ req[r].kind = "send" /\ req[r].pc = "done" /\ req[r].resp.success
        /\ req[r].ref = "d2" /\ req[r].writes = 1
        /\ store["d2"].email = "a" /\ store["d2"].uid = "u1"
        /\ store["d2"].otp = Submitted(req[r])
        /\ store["d2"].otpExpiresAt = req[r].expiryAt

\* C16.  A request calls each collaborator at most once: a sendOtp sends at
\* most one mail and makes at most one store write and no identity-provider
\* call, a verifyOtp makes at most one record update and at most one
\* identity-provider call and sends no mail; attempts count whether they
\* succeed or fail, so no call is made again after it failed, and a failed
\* mail or store call ends the request.
C16_AtMostOnce ==
    \A r \in Reqs :
        LET q == req[r]
        IN  /\ q.mails <= 1 /\ q.writes <= 1 /\ q.authCalls <= 1
            /\ q.kind = "send" => q.authCalls = 0
            /\ q.kind = "verify" => q.mails = 0
            /\ (q.mails = 1 /\ ~q.mailOk) => q.pc = "done" /\ q.writes = 0
            /\ (q.kind = "send" /\ q.writes = 1) => q.pc = "done"
            /\ q.authCalls = 1 => q.pc = "done" /\ q.writes = 1
            /\ q.resp.status = 500 => q.pc = "done"

\* C16 witness: a sendOtp whose store write failed was answered 500 after
\* one mail and one write attempt
C16_Witness ==
    \E r \in Reqs :
        /\ req[r].kind = "send" /\ req[r].pc = "done"
        /\ req[r].mails = 1 /\ req[r].mailOk /\ req[r].writes = 1
        /\ req[r].resp.status = 500

\* C17.  The success response of a verifyOtp does not wait for the
\* identity-provider call: when the response is produced, after the record
\* update was committed, that call has not yet completed (neither returned
\* nor thrown).
C17_ResponseBeforeAuth ==
    \A r \in Reqs :
        ( /\ req[r].kind = "verify" /\ req[r].pc = "done"
          /\ req[r].resp.success /\ req[r].writes = 1 )
        => req[r].authCalls = 0

\* what C18 asks of one step of the request in slot r
C18_Step(r) ==
    LET q == req[r]
        q2 == req'[r]
    IN  ( q.kind = "verify" /\ q.pc = "update" /\ q2.pc = "auth" )
        => /\ store[q.ref].otp # Undefined
                => store[q.ref].otp = q.storedOtp
           /\ q.raced => store'[q.ref].otp = store[q.ref].otp

\* C18.  When the record update of a verifyOtp is applied, the code it
\* removes from the record is the code the request read and compared with
\* the submitted one; a code that a sendOtp wrote between the request's
\* read and its update is not removed.
C18_ConsumesValidatedCode == [][\A r \in Reqs : C18_Step(r)]_vars

\* the handlers started on a store in which the record of another account
\* id holds a pending code
InitPend ==
    /\ store \in InitPending
    /\ now = 0
    /\ ticks = 0
    /\ req = [r \in Reqs |-> IdleReq]
    /\ authVerified = {}
    /\ verifiedSinceIssue = [d \in DocIds |-> 0]
    /\ okSinceIssue = [d \in DocIds |-> 0]

\* requests are served one after the other, from such a store
SpecPending == InitPend /\ [][NextSeq]_vars

\* what C19 asks of one step of the request in slot r
C19_Step(r) ==
    LET q == req[r]
    IN  ( q.kind = "verify" /\ q.pc = "auth" /\ q.uid \in authVerified'
          /\ authVerified' # authVerified )
        => /\ store[q.ref].emailVerified
           /\ q.ref = q.uid \/ store[q.ref].uid = q.uid

\* C19.  When a verifyOtp flags account identifier A as verified in the
\* identity provider, the record that the request marked verified is the
\* record of A: its document id is A or its uid field is A.
C19_AuthTargetMatchesRecord == [][\A r \in Reqs : C19_Step(r)]_vars

\* every pending collaborator call of a request eventually returns or
\* throws, and a response being written goes out
Fairness == \A r \in Reqs : WF_vars(Handle(r)) /\ WF_vars(Close(r))

\* requests are served one after the other and every call settles
FairSeq == SpecSeq /\ Fairness

\* what C20 asks of one step of the request in slot r
C20_Step(r) ==
    LET q == req[r]
        q2 == req'[r]
    IN  /\ q2.pc \notin {"idle", "done"} => q2.resp.status = 0
        /\ ( q.pc # "done" /\ q2.pc = "done" )
           => /\ q.resp.status = 0
              /\ q2.resp.status \in {200, 400, 500}
              /\ q2.resp.success \in BOOLEAN
              /\ q2.resp.success <=> q2.resp.status = 200
        /\ q.pc = "done" => q2 = q \/ q2.pc = "idle"

\* C20.  Every collaborator call eventually returning or throwing, every
\* sendOtp and every verifyOtp request is eventually answered, whatever
\* calls succeed or fail; the answer carries a success boolean, nothing is
\* sent before it, and nothing after it until the invocation is over.
C20_AnsweredOnce ==
    /\ \A r \in Reqs : (req[r].pc # "idle") ~> (req[r].pc = "done")
    /\ [][\A r \in Reqs : C20_Step(r)]_vars

\* C20 witness: a verifyOtp whose three lookups found nothing, or whose
\* last one threw, has been answered
C20_Witness ==
    \E r \in Reqs :
        /\ req[r].kind = "verify" /\ req[r].pc = "done"
        /\ req[r].reads = 3 /\ req[r].resp.status \in {400, 500}
        /\ ~req[r].resp.success

=============================================================================
